---- MODULE Spec2Model ----
(***************************************************************************)
(* Model of src/calendly-widget.js: the CalendlyWidget custom element.     *)
(* One widget instance is a record of attributes, a shadow-root structure, *)
(* pending settle timers and a bound message handler that may be           *)
(* registered on the window.  The host runtime fires lifecycle callbacks,  *)
(* attribute changes, frame load events, timers and window messages in any *)
(* order; every handler runs to completion.                                *)
(***************************************************************************)
EXTENDS Integers, Sequences, FiniteSets, TLC

VARIABLES attrs, mounted, listeners, shadow, timers, emitted, threw, lastMsg

vars == <<attrs, mounted, listeners, shadow, timers, emitted, threw, lastMsg>>

(***************************************************************************)
(* Bounds                                                                  *)
(***************************************************************************)
\* most settle timers pending per widget
MaxTimers == 1

\* the widget instances that have been constructed
Widgets == DOMAIN attrs

(***************************************************************************)
(* JavaScript values that reach the numeric code paths                     *)
(***************************************************************************)
Undefined == [t |-> "undefined", n |-> 0, s |-> ""]
NaN == [t |-> "nan", n |-> 0, s |-> ""]
Infinity == [t |-> "inf", n |-> 0, s |-> ""]
Num(k) == [t |-> "number", n |-> k, s |-> ""]
Str(x) == [t |-> "string", n |-> 0, s |-> x]

Digits == {"0", "1", "2", "3", "4", "5", "6", "7", "8", "9"}
Lower == {"a", "b", "c", "d", "e", "f", "g", "h", "i", "j", "k", "l", "m",
          "n", "o", "p", "q", "r", "s", "t", "u", "v", "w", "x", "y", "z"}
Whitespace == {" "}

Char(s, i) == SubSeq(s, i, i)

DigitVal(c) ==
  CASE c = "0" -> 0 [] c = "1" -> 1 [] c = "2" -> 2 [] c = "3" -> 3
    [] c = "4" -> 4 [] c = "5" -> 5 [] c = "6" -> 6 [] c = "7" -> 7
    [] c = "8" -> 8 [] c = "9" -> 9

\* value of the longest run of decimal digits of s starting at i, given the
\* value acc of the digits already read
RECURSIVE DigitRun(_, _, _)
DigitRun(s, i, acc) ==
  IF i > Len(s) \/ Char(s, i) \notin Digits THEN acc
  ELSE DigitRun(s, i + 1, acc * 10 + DigitVal(Char(s, i)))

RECURSIVE SkipWhitespace(_, _)
SkipWhitespace(s, i) ==
  IF i <= Len(s) /\ Char(s, i) \in Whitespace THEN SkipWhitespace(s, i + 1) ELSE i

\* parseInt(s, 10): leading whitespace, an optional sign, then the longest
\* digit prefix; NaN when there is no digit
ParseInt(s) ==
  LET i == SkipWhitespace(s, 1)
      neg == i <= Len(s) /\ Char(s, i) = "-"
      j == IF i <= Len(s) /\ Char(s, i) \in {"-", "+"} THEN i + 1 ELSE i
  IN  IF j > Len(s) \/ Char(s, j) \notin Digits THEN NaN
      ELSE Num((IF neg THEN -1 ELSE 1) * DigitRun(s, j, 0))

\* ToNumber of a string: the empty string is 0, a decimal literal its value,
\* anything else NaN
StringToNumber(s) ==
  IF Len(s) = 0 THEN Num(0)
  ELSE IF \A i \in 1..Len(s) : Char(s, i) \in Digits THEN Num(DigitRun(s, 1, 0))
  ELSE NaN

ToNumber(v) ==
  CASE v.t = "number" -> v
    [] v.t = "inf" -> v
    [] v.t = "string" -> StringToNumber(v.s)
    [] OTHER -> NaN

\* !!v
Truthy(v) ==
  CASE v.t = "number" -> v.n # 0
    [] v.t = "inf" -> TRUE
    [] v.t = "string" -> Len(v.s) > 0
    [] OTHER -> FALSE

\* Math.max(a, b)
MathMax(a, b) ==
  LET x == ToNumber(a)
      y == ToNumber(b)
  IN  IF x.t = "nan" \/ y.t = "nan" THEN NaN
      ELSE IF x.t = "inf" \/ y.t = "inf" THEN Infinity
      ELSE IF x.n >= y.n THEN x ELSE y

(***************************************************************************)
(* Attributes                                                              *)
(***************************************************************************)
observedAttributes ==
  {"url", "height", "hide-details", "hide-gdpr", "background-color",
   "text-color", "primary-color"}

\* getAttribute: null for an absent attribute
Null == [has |-> FALSE, v |-> ""]
Val(s) == [has |-> TRUE, v |-> s]

\* a || b on an attribute value: null and "" are falsy
OrElse(a, d) == IF a.has /\ Len(a.v) > 0 THEN a.v ELSE d

NoAttributes == [n \in observedAttributes |-> Null]

(***************************************************************************)
(* URL parsing and the resolved request                                    *)
(***************************************************************************)
Upper == {"A", "B", "C", "D", "E", "F", "G", "H", "I", "J", "K", "L", "M",
          "N", "O", "P", "Q", "R", "S", "T", "U", "V", "W", "X", "Y", "Z"}
Letters == Lower \cup Upper
SchemeChars == Letters \cup Digits \cup {"+", "-", "."}
SpecialSchemes == {"http", "https", "ws", "wss", "ftp"}

\* index of the first occurrence of character c in s at or after i, 0 if none
RECURSIVE IndexOf(_, _, _)
IndexOf(s, c, i) ==
  IF i > Len(s) THEN 0
  ELSE IF Char(s, i) = c THEN i
  ELSE IndexOf(s, c, i + 1)

RECURSIVE SkipSlashes(_, _)
SkipSlashes(s, i) ==
  IF i <= Len(s) /\ Char(s, i) = "/" THEN SkipSlashes(s, i + 1) ELSE i

\* pieces of s between occurrences of character c
RECURSIVE Split(_, _)
Split(s, c) ==
  LET k == IndexOf(s, c, 1)
  IN  IF k = 0 THEN <<s>>
      ELSE <<SubSeq(s, 1, k - 1)>> \o Split(SubSeq(s, k + 1, Len(s)), c)

\* new URL(s) succeeds: a scheme, a colon, and for a special scheme a host
UrlParses(s) ==
  LET colon == IndexOf(s, ":", 1)
      hostStart == SkipSlashes(s, colon + 1)
  IN  /\ colon > 1
      /\ Char(s, 1) \in Letters
      /\ \A j \in 2..(colon - 1) : Char(s, j) \in SchemeChars
      /\ SubSeq(s, 1, colon - 1) \in SpecialSchemes =>
           /\ hostStart <= Len(s)
           /\ Char(s, hostStart) \notin {"/", "?", "#"}

\* one name=value piece of a query string
QueryPair(piece) ==
  LET eq == IndexOf(piece, "=", 1)
  IN  IF eq = 0 THEN [name |-> piece, value |-> ""]
      ELSE [name |-> SubSeq(piece, 1, eq - 1),
            value |-> SubSeq(piece, eq + 1, Len(piece))]

NonEmptyPiece(piece) == Len(piece) > 0

\* the parts of a parsable URL: everything before the query, and the query
\* as the list of its pairs (url.searchParams)
UrlBase(s) ==
  LET q == IndexOf(s, "?", 1)
  IN  IF q = 0 THEN s ELSE SubSeq(s, 1, q - 1)

UrlSearchParams(s) ==
  LET q == IndexOf(s, "?", 1)
      pieces == IF q = 0 THEN <<>>
                ELSE SelectSeq(Split(SubSeq(s, q + 1, Len(s)), "&"), NonEmptyPiece)
  IN  [i \in 1..Len(pieces) |-> QueryPair(pieces[i])]

\* url.search = name=value in place of set: the query is replaced whole
SearchParamsReplace(ps, name, value) == <<[name |-> name, value |-> value]>>

\* searchParams.append in place of set: a pair is added whatever the list holds
SearchParamsAppend(ps, name, value) == Append(ps, [name |-> name, value |-> value])

\* URLSearchParams.set: the first pair of that name takes the value and the
\* later pairs of that name are removed; appended when there is none
SearchParamsSet(ps, name, value) ==
  IF \E i \in 1..Len(ps) : ps[i].name = name
  THEN LET k == CHOOSE i \in 1..Len(ps) :
                  /\ ps[i].name = name
                  /\ \A j \in 1..(i - 1) : ps[j].name # name
           Other(p) == p.name # name
       IN  SubSeq(ps, 1, k - 1) \o <<[name |-> name, value |-> value]>>
             \o SelectSeq(SubSeq(ps, k + 1, Len(ps)), Other)
  ELSE Append(ps, [name |-> name, value |-> value])

\* window.location.hostname
Hostname == "www.example.com"

NoRequest == [status |-> "empty", base |-> "", params |-> <<>>]

\* get calendlyUrl(): "" without a url, an exception for an unparsable one,
\* otherwise the url with the customization and embed parameters set
calendlyUrl(a) ==
  LET baseUrl == OrElse(a["url"], "")
      p0 == UrlSearchParams(baseUrl)
      p1 == IF a["hide-details"] = Val("true")
            THEN SearchParamsSet(p0, "hide_event_type_details", "1") ELSE p0
      p2 == IF a["hide-gdpr"] = Val("true")
            THEN SearchParamsSet(p1, "hide_gdpr_banner", "1") ELSE p1
      p3 == IF Len(OrElse(a["background-color"], "")) > 0
            THEN SearchParamsSet(p2, "background_color", a["background-color"].v) ELSE p2
      p4 == IF Len(OrElse(a["text-color"], "")) > 0
            THEN SearchParamsSet(p3, "text_color", a["text-color"].v) ELSE p3
      p5 == IF Len(OrElse(a["primary-color"], "")) > 0
            THEN SearchParamsSet(p4, "primary_color", a["primary-color"].v) ELSE p4
      p6 == SearchParamsSet(p5, "embed_domain", Hostname)
      p7 == SearchParamsSet(p6, "embed_type", "Inline")
  IN  IF Len(baseUrl) = 0 THEN NoRequest
      ELSE IF ~UrlParses(baseUrl) THEN [status |-> "throws", base |-> "", params |-> <<>>]
      ELSE [status |-> "ok", base |-> UrlBase(baseUrl), params |-> p7]

\* get minHeight(): parseInt(getAttribute('height') || '700', 10)
minHeight(a) == ParseInt(OrElse(a["height"], "700"))

(***************************************************************************)
(* The shadow root                                                         *)
(***************************************************************************)
\* an inline style height
Unset == [set |-> FALSE, px |-> 0]
Px(k) == [set |-> TRUE, px |-> k]

\* style.height = `${v}px`: a non-negative finite length is stored, any other
\* text is not a valid height and the assignment is dropped
SetStyleHeight(old, v) ==
  IF v.t = "number" /\ v.n >= 0 THEN Px(v.n) ELSE old

\* getStyles(): the min-height the style sheet gives container and frame;
\* an invalid declaration (NaNpx, a negative length) is dropped
getStyles(a) ==
  LET m == minHeight(a)
  IN  IF m.t = "number" /\ m.n >= 0 THEN m.n ELSE 0

\* shadowRoot.innerHTML is empty until the first render
EmptyRoot ==
  [kind |-> "empty", cssMin |-> 0, src |-> NoRequest,
   containerHeight |-> Unset, iframeHeight |-> Unset,
   hidden |-> FALSE, loaded |-> FALSE]

\* the structure with the error message and no frame
ErrorStructure(a) ==
  [kind |-> "error", cssMin |-> getStyles(a), src |-> NoRequest,
   containerHeight |-> Unset, iframeHeight |-> Unset,
   hidden |-> FALSE, loaded |-> FALSE]

\* the structure with container, loading overlay and frame
FrameStructure(a, url) ==
  [kind |-> "frame", cssMin |-> getStyles(a), src |-> url,
   containerHeight |-> Unset, iframeHeight |-> Unset,
   hidden |-> FALSE, loaded |-> FALSE]

\* a pending settle timer holds the overlay node of the render that created
\* it: stale once that node has been replaced, reconfigured once an attribute
\* change has replaced it, detached once the widget has been disconnected
\* since the timer was set
NewTimer == [stale |-> FALSE, reconfigured |-> FALSE, detached |-> FALSE]
Staled(tm) == [i \in 1..Len(tm) |-> [tm[i] EXCEPT !.stale = TRUE]]
Reconfigured(tm) == [i \in 1..Len(tm) |-> [tm[i] EXCEPT !.reconfigured = TRUE]]
Detached(tm) == [i \in 1..Len(tm) |-> [tm[i] EXCEPT !.detached = TRUE]]

\* render(): an exception of calendlyUrl leaves the root as it was; otherwise
\* innerHTML is replaced, which orphans every node handed out before
render(a, sh, tm) ==
  LET url == calendlyUrl(a)
  IN  IF url.status = "throws" THEN [threw |-> TRUE, shadow |-> sh, timers |-> tm]
      ELSE IF url.status = "empty"
      THEN [threw |-> FALSE, shadow |-> ErrorStructure(a), timers |-> Staled(tm)]
      ELSE [threw |-> FALSE, shadow |-> FrameStructure(a, url), timers |-> Staled(tm)]

\* an updateHeight that adds the new height to the height already applied
updateHeightAccumulating(a, sh, height) ==
  IF ~Truthy(height) THEN sh
  ELSE IF sh.kind = "frame"
  THEN LET newHeight == MathMax(height, minHeight(a))
           sum == IF newHeight.t = "number"
                  THEN Num(newHeight.n + sh.containerHeight.px) ELSE newHeight
       IN  [sh EXCEPT !.containerHeight = SetStyleHeight(@, sum),
                      !.iframeHeight = SetStyleHeight(@, sum)]
  ELSE sh

\* updateHeight(height) on one widget's root
updateHeight(a, sh, height) ==
  IF ~Truthy(height) THEN sh
  ELSE IF sh.kind = "frame"
  THEN LET newHeight == MathMax(height, minHeight(a))
       IN  [sh EXCEPT !.containerHeight = SetStyleHeight(@, newHeight),
                      !.iframeHeight = SetStyleHeight(@, newHeight)]
  ELSE sh

(***************************************************************************)
(* Window messages                                                         *)
(***************************************************************************)
\* s.includes(t)
Includes(s, t) ==
  \E i \in 1..(Len(s) - Len(t) + 1) : SubSeq(s, i, i + Len(t) - 1) = t

\* the string handleMessage looks for in event.origin
TrustedDomain == "calendly.com"

NoPayload == [present |-> FALSE, height |-> Undefined, foo |-> 0]
HeightPayload(h) == [present |-> TRUE, height |-> h, foo |-> 0]
FooPayload == [present |-> TRUE, height |-> Undefined, foo |-> 1]

NoData == [present |-> FALSE, event |-> Null, payload |-> NoPayload]
Data(ev, pl) == [present |-> TRUE, event |-> ev, payload |-> pl]

Message(origin, data) == [origin |-> origin, data |-> data]
NoMessage == Message("", NoData)

\* new CustomEvent(type, {detail, bubbles: true, composed: true})
CustomEvent(type, detail) ==
  [type |-> type, detail |-> detail, bubbles |-> TRUE, composed |-> TRUE]

\* data.payload?.height
PayloadHeight(pl) == IF pl.present THEN pl.height ELSE Undefined

\* handleMessage with the height update as the default branch: any event
\* name other than the three forwarded ones is taken for a height report
handleMessageDefaultHeight(a, sh, event) ==
  LET data == event.data
      name == data.event.v
  IN  IF ~Includes(event.origin, TrustedDomain) THEN [shadow |-> sh, emitted |-> <<>>]
      ELSE IF ~data.present \/ Len(OrElse(data.event, "")) = 0
      THEN [shadow |-> sh, emitted |-> <<>>]
      ELSE [shadow |->
              IF name \notin {"calendly.event_scheduled",
                              "calendly.date_and_time_selected",
                              "calendly.event_type_viewed"}
              THEN updateHeight(a, sh, PayloadHeight(data.payload)) ELSE sh,
            emitted |->
              (IF name = "calendly.event_scheduled"
               THEN <<CustomEvent("scheduled", data.payload)>> ELSE <<>>)
              \o (IF name = "calendly.date_and_time_selected"
                  THEN <<CustomEvent("datetime-selected", data.payload)>> ELSE <<>>)
              \o (IF name = "calendly.event_type_viewed"
                  THEN <<CustomEvent("viewed", data.payload)>> ELSE <<>>)]

\* handleMessage(event) on one widget: its root afterwards and the events it
\* dispatched
handleMessage(a, sh, event) ==
  LET data == event.data
      name == data.event.v
  IN  IF ~Includes(event.origin, TrustedDomain) THEN [shadow |-> sh, emitted |-> <<>>]
      ELSE IF ~data.present \/ Len(OrElse(data.event, "")) = 0
      THEN [shadow |-> sh, emitted |-> <<>>]
      ELSE [shadow |->
              IF name = "calendly.page_height"
              THEN updateHeight(a, sh, PayloadHeight(data.payload)) ELSE sh,
            emitted |->
              (IF name = "calendly.event_scheduled"
               THEN <<CustomEvent("scheduled", data.payload)>> ELSE <<>>)
              \o (IF name = "calendly.date_and_time_selected"
                  THEN <<CustomEvent("datetime-selected", data.payload)>> ELSE <<>>)
              \o (IF name = "calendly.event_type_viewed"
                  THEN <<CustomEvent("viewed", data.payload)>> ELSE <<>>)]

\* window.addEventListener('message', h): a listener already in the list is
\* not added again
addEventListener(ls, h) ==
  IF \E i \in 1..Len(ls) : ls[i] = h THEN ls ELSE Append(ls, h)

\* a disconnect that leaves the handler registered
removeEventListenerKept(ls, h) == ls

\* window.removeEventListener('message', h)
removeEventListener(ls, h) ==
  IF \E i \in 1..Len(ls) : ls[i] = h
  THEN LET k == CHOOSE i \in 1..Len(ls) :
                  ls[i] = h /\ \A j \in 1..(i - 1) : ls[j] # h
       IN  SubSeq(ls, 1, k - 1) \o SubSeq(ls, k + 1, Len(ls))
  ELSE ls

\* the window calls the listeners of ls from position i on, in order; each
\* entry is the bound handler of one widget
RECURSIVE Dispatch(_, _, _, _, _, _)
Dispatch(ls, i, event, a, sh, em) ==
  IF i > Len(ls) THEN [shadow |-> sh, emitted |-> em]
  ELSE LET w == ls[i]
           r == handleMessage(a[w], sh[w], event)
       IN  Dispatch(ls, i + 1, event, a,
                    [sh EXCEPT ![w] = r.shadow],
                    [em EXCEPT ![w] = @ \o r.emitted])

(***************************************************************************)
(* Inputs                                                                  *)
(***************************************************************************)
UrlA == "https://calendly.com/a"
UrlB == "https://calendly.com/b?month=2026-11"
UrlUnparsable == "calendly.com/me"

AttrInputs ==
  {<<"url", Null>>, <<"url", Val(UrlUnparsable)>>, <<"url", Val(UrlA)>>,
   <<"url", Val(UrlB)>>,
   <<"height", Null>>, <<"height", Val("900")>>, <<"height", Val("abc")>>}

HeightReports ==
  {Undefined, Num(0), Num(-5), Num(500), Num(1200), NaN, Infinity, Str("abc")}

OriginTrusted == "https://calendly.com"
OriginSubdomain == "https://api.calendly.com"
OriginLookalike == "https://calendly.com.evil.example"
OriginOther == "https://not-trusted.example"
Origins == {OriginTrusted, OriginSubdomain, OriginLookalike, OriginOther}

ForwardedEvents ==
  {"calendly.event_scheduled", "calendly.date_and_time_selected",
   "calendly.event_type_viewed"}

\* the messages of Spec: from the trusted origin one of each effect, from
\* the other origins a height report, from the lookalike also an event
Messages ==
  {Message(OriginTrusted, Data(Val("calendly.page_height"), pl)) :
     pl \in {NoPayload, HeightPayload(Num(-5)), HeightPayload(Num(500)),
             HeightPayload(Num(1200))}}
    \cup {Message(OriginTrusted, Data(Val(e), FooPayload)) : e \in ForwardedEvents}
    \cup {Message(OriginTrusted, Data(Null, FooPayload))}
    \cup {Message(o, Data(Val("calendly.page_height"), HeightPayload(Num(1200)))) :
            o \in Origins}
    \cup {Message(OriginLookalike, Data(Val("calendly.event_scheduled"), FooPayload))}

(***************************************************************************)
(* State and steps                                                         *)
(***************************************************************************)
Quiet == [w \in Widgets |-> <<>>]
NoThrow == [w \in Widgets |-> FALSE]

\* constructor() for each widget of W: an open, empty shadow root; nothing
\* registered on the window
Constructed(W) ==
  /\ attrs = [w \in W |-> NoAttributes]
  /\ mounted = [w \in W |-> FALSE]
  /\ listeners = <<>>
  /\ shadow = [w \in W |-> EmptyRoot]
  /\ timers = [w \in W |-> <<>>]
  /\ emitted = [w \in W |-> <<>>]
  /\ threw = [w \in W |-> FALSE]
  /\ lastMsg = NoMessage

Init == Constructed({"w1"})

\* connectedCallback(): render, then subscribe; an exception of render ends
\* the callback before the subscription
connectedCallback(w) ==
  \E r \in {render(attrs[w], shadow[w], timers[w])} :
      /\ mounted' = [mounted EXCEPT ![w] = TRUE]
      /\ shadow' = [shadow EXCEPT ![w] = r.shadow]
      /\ timers' = [timers EXCEPT ![w] = r.timers]
      /\ threw' = [NoThrow EXCEPT ![w] = r.threw]
      /\ listeners' = IF r.threw THEN listeners ELSE addEventListener(listeners, w)
      /\ emitted' = Quiet
      /\ lastMsg' = NoMessage
      /\ UNCHANGED attrs

\* disconnectedCallback(): unsubscribe; pending timers stay pending
disconnectedCallback(w) ==
  /\ mounted' = [mounted EXCEPT ![w] = FALSE]
  /\ listeners' = removeEventListener(listeners, w)
  /\ timers' = [timers EXCEPT ![w] = Detached(@)]
  /\ threw' = NoThrow
  /\ emitted' = Quiet
  /\ lastMsg' = NoMessage
  /\ UNCHANGED <<attrs, shadow>>

\* the host sets or removes attribute name, then
\* attributeChangedCallback(name, oldValue, newValue) runs
attributeChangedCallback(w, name, newValue) ==
  LET oldValue == attrs[w][name]
      a == [attrs[w] EXCEPT ![name] = newValue]
      rerender == oldValue # newValue /\ shadow[w].kind # "empty"
      kept == [threw |-> FALSE, shadow |-> shadow[w], timers |-> timers[w]]
  IN  \E r \in {IF rerender THEN render(a, shadow[w], timers[w]) ELSE kept} :
      /\ attrs' = [attrs EXCEPT ![w] = a]
      /\ shadow' = [shadow EXCEPT ![w] = r.shadow]
      /\ timers' = [timers EXCEPT ![w] =
                      IF rerender /\ ~r.threw THEN Reconfigured(r.timers) ELSE r.timers]
      /\ threw' = [NoThrow EXCEPT ![w] = r.threw]
      /\ emitted' = Quiet
      /\ lastMsg' = NoMessage
      /\ UNCHANGED <<mounted, listeners>>

\* the frame of the current structure fires 'load': the listener set in
\* render() starts a 500 ms timer
frameLoad(w) ==
  /\ mounted[w]
  /\ shadow[w].kind = "frame"
  /\ Len(timers[w]) < MaxTimers
  /\ shadow' = [shadow EXCEPT ![w].loaded = TRUE]
  /\ timers' = [timers EXCEPT ![w] = Append(@, NewTimer)]
  /\ threw' = NoThrow
  /\ emitted' = Quiet
  /\ lastMsg' = NoMessage
  /\ UNCHANGED <<attrs, mounted, listeners>>

\* a timer callback that looks the overlay up when it runs: it hides the
\* overlay of whatever structure is current
settleTimeoutCurrentOverlay(w) ==
  /\ Len(timers[w]) > 0
  /\ shadow' = [shadow EXCEPT ![w].hidden = TRUE]
  /\ timers' = [timers EXCEPT ![w] = Tail(@)]
  /\ threw' = NoThrow
  /\ emitted' = Quiet
  /\ lastMsg' = NoMessage
  /\ UNCHANGED <<attrs, mounted, listeners>>

\* a timer callback that does not reach the overlay: the timer is used up and
\* the overlay stays
settleTimeoutNoHide(w) ==
  /\ Len(timers[w]) > 0
  /\ timers' = [timers EXCEPT ![w] = Tail(@)]
  /\ threw' = NoThrow
  /\ emitted' = Quiet
  /\ lastMsg' = NoMessage
  /\ UNCHANGED <<attrs, mounted, listeners, shadow>>

\* the oldest pending timer fires: loading.classList.add('hidden') on the
\* overlay node it holds, which is in the root only if the timer is not stale
settleTimeout(w) ==
  /\ Len(timers[w]) > 0
  /\ shadow' = IF Head(timers[w]).stale THEN shadow
               ELSE [shadow EXCEPT ![w].hidden = TRUE]
  /\ timers' = [timers EXCEPT ![w] = Tail(@)]
  /\ threw' = NoThrow
  /\ emitted' = Quiet
  /\ lastMsg' = NoMessage
  /\ UNCHANGED <<attrs, mounted, listeners>>

\* a 'message' event on the window reaches every registered handler
windowMessage(event) ==
  \E r \in {Dispatch(listeners, 1, event, attrs, shadow, Quiet)} :
      /\ shadow' = r.shadow
      /\ emitted' = r.emitted
      /\ lastMsg' = event
      /\ threw' = NoThrow
      /\ UNCHANGED <<attrs, mounted, listeners, timers>>

\* the host calls widget.updateHeight(height) itself
updateHeightCall(w, height) ==
  /\ shadow' = [shadow EXCEPT ![w] = updateHeight(attrs[w], @, height)]
  /\ threw' = NoThrow
  /\ emitted' = Quiet
  /\ lastMsg' = NoMessage
  /\ UNCHANGED <<attrs, mounted, listeners, timers>>

Next ==
  \/ \E w \in Widgets : connectedCallback(w)
  \/ \E w \in Widgets : disconnectedCallback(w)
  \/ \E w \in Widgets : \E c \in AttrInputs : attributeChangedCallback(w, c[1], c[2])
  \/ \E w \in Widgets : frameLoad(w)
  \/ \E w \in Widgets : settleTimeout(w)
  \/ \E event \in Messages : windowMessage(event)
  \/ \E w \in Widgets : \E h \in HeightReports : updateHeightCall(w, h)

Spec == Init /\ [][Next]_vars

TypeOK ==
  /\ \A w \in Widgets : Len(timers[w]) <= MaxTimers
  /\ \A w \in Widgets : shadow[w].kind \in {"empty", "error", "frame"}

(***************************************************************************)
(* Derived notions                                                         *)
(***************************************************************************)
\* live 'message' subscriptions of widget w
Subscriptions(w) == Cardinality({i \in 1..Len(listeners) : listeners[i] = w})

\* the render state shown by a root
RenderState(sh) ==
  CASE sh.kind = "empty" -> "None"
    [] sh.kind = "error" -> "Error"
    [] sh.kind = "frame" /\ ~sh.loaded -> "Loading"
    [] OTHER -> "Ready"

\* used height of a box with inline height h under the sheet's min-height
UsedHeight(h, cssMin) ==
  IF h.set /\ h.px >= cssMin THEN h.px ELSE cssMin

EndsWith(s, t) == Len(s) >= Len(t) /\ SubSeq(s, Len(s) - Len(t) + 1, Len(s)) = t

\* host of an origin: what follows "://"
OriginHost(o) ==
  LET c == IndexOf(o, ":", 1)
  IN  IF c = 0 THEN o ELSE SubSeq(o, SkipSlashes(o, c + 1), Len(o))

\* the origin's host is the trusted domain or a subdomain of it
IdentifiesTrustedDomain(o) ==
  OriginHost(o) = TrustedDomain \/ EndsWith(OriginHost(o), "." \o TrustedDomain)

\* the step just taken delivered a message on the window
Delivered(msg) == msg # NoMessage

HeightsUnchanged(w) ==
  /\ shadow'[w].containerHeight = shadow[w].containerHeight
  /\ shadow'[w].iframeHeight = shadow[w].iframeHeight

IsPageHeight(msg) ==
  msg.data.present /\ msg.data.event = Val("calendly.page_height")

UrlUnparsableNow(w) ==
  Len(OrElse(attrs[w]["url"], "")) > 0 /\ ~UrlParses(attrs[w]["url"].v)

(***************************************************************************)
(* Claims                                                                  *)
(***************************************************************************)
\* C1: a message from an origin the handler accepts, delivered while the
\* widget is unmounted (after disconnectedCallback, before the next
\* connectedCallback), leaves the widget's container and frame heights as
\* they were and makes the widget dispatch no event.
C1_UnmountedIgnoresMessages ==
  [][\A w \in Widgets :
       (~mounted[w] /\ Delivered(lastMsg') /\ Includes(lastMsg'.origin, TrustedDomain))
         => (HeightsUnchanged(w) /\ emitted'[w] = <<>>)]_vars

\* C1 witness: an unmounted widget still showing the frame at its initial
\* size, just after a trusted page_height report of 1200.
C1_Witness ==
  \E w \in Widgets :
    /\ ~mounted[w]
    /\ shadow[w].kind = "frame"
    /\ shadow[w].containerHeight = Unset
    /\ minHeight(attrs[w]) = Num(700)
    /\ lastMsg = Message(OriginTrusted,
                         Data(Val("calendly.page_height"), HeightPayload(Num(1200))))

\* C2: a message whose origin's host is neither the trusted domain nor a
\* subdomain of it changes no widget's height and makes no widget dispatch
\* an event, whatever its event name and payload.
C2_ForeignOriginDiscarded ==
  [][\A w \in Widgets :
       (Delivered(lastMsg') /\ ~IdentifiesTrustedDomain(lastMsg'.origin))
         => (HeightsUnchanged(w) /\ emitted'[w] = <<>>)]_vars

\* C3: for a mounted widget whose root holds the frame, a trusted
\* page_height message with a positive finite height h leaves container and
\* frame both at max(h, minHeight).
C3_PageHeightSetsClampedHeight ==
  [][\A w \in Widgets :
       LET h == PayloadHeight(lastMsg'.data.payload)
           m == minHeight(attrs[w])
       IN  (/\ mounted[w]
            /\ shadow[w].kind = "frame"
            /\ Delivered(lastMsg')
            /\ IdentifiesTrustedDomain(lastMsg'.origin)
            /\ IsPageHeight(lastMsg')
            /\ h.t = "number" /\ h.n > 0)
             => /\ m.t = "number"
                /\ shadow'[w].containerHeight = Px(IF h.n >= m.n THEN h.n ELSE m.n)
                /\ shadow'[w].iframeHeight = shadow'[w].containerHeight]_vars

\* the outbound event name for an inbound event
OutboundName(e) ==
  CASE e = "calendly.event_scheduled" -> "scheduled"
    [] e = "calendly.date_and_time_selected" -> "datetime-selected"
    [] e = "calendly.event_type_viewed" -> "viewed"

\* C4: for a mounted widget, a trusted message whose event is
\* event_scheduled, date_and_time_selected or event_type_viewed makes the
\* widget dispatch exactly one event, named scheduled, datetime-selected or
\* viewed, carrying the inbound payload, and leaves its root as it was.
C4_ForwardsExactlyOneEvent ==
  [][\A w \in Widgets :
       (/\ mounted[w]
        /\ Delivered(lastMsg')
        /\ IdentifiesTrustedDomain(lastMsg'.origin)
        /\ lastMsg'.data.present
        /\ lastMsg'.data.event.v \in ForwardedEvents)
         => /\ emitted'[w] = <<CustomEvent(OutboundName(lastMsg'.data.event.v),
                                           lastMsg'.data.payload)>>
            /\ shadow'[w] = shadow[w]]_vars

\* C5: no callback raises an error, and a mounted widget whose url is
\* present but unparsable shows the error structure.
C5_UnparsableUrlRendersError ==
  \A w \in Widgets :
    /\ ~threw[w]
    /\ (mounted[w] /\ UrlUnparsableNow(w)) => RenderState(shadow[w]) = "Error"

\* C6: a widget has exactly one live message subscription while mounted and
\* none while not mounted.
C6_OneSubscriptionIffMounted ==
  \A w \in Widgets : Subscriptions(w) = IF mounted[w] THEN 1 ELSE 0

\* C7: changing the url of a mounted widget to a different parsable value
\* re-renders it into Loading with the overlay visible and the new request
\* as frame source, with exactly one subscription before and after.
C7_UrlChangeRerendersSubscribed ==
  [][\A w \in Widgets :
       (/\ mounted[w]
        /\ attrs'[w]["url"] # attrs[w]["url"]
        /\ Len(OrElse(attrs'[w]["url"], "")) > 0
        /\ UrlParses(attrs'[w]["url"].v))
         => /\ RenderState(shadow'[w]) = "Loading"
            /\ ~shadow'[w].hidden
            /\ shadow'[w].src = calendlyUrl(attrs'[w])
            /\ Subscriptions(w) = 1
            /\ Subscriptions(w)' = 1]_vars

\* C8: a settle timer that fires has seen neither a disconnect of its
\* widget nor a re-render by an attribute change since it was set.
C8_NoSettleAfterUnmountOrRerender ==
  [][\A w \in Widgets :
       (Len(timers[w]) > 0 /\ timers'[w] = Tail(timers[w]))
         => (~Head(timers[w]).detached /\ ~Head(timers[w]).reconfigured)]_vars

\* the candidates updateHeight must ignore: absent, zero, negative,
\* non-numeric, not finite
IgnoredCandidates == {Undefined, Num(0), Num(-5), Str("abc"), NaN, Infinity}

\* C9: updateHeight with an absent, zero, negative, non-numeric or
\* non-finite candidate writes nothing, whether the candidate arrives in a
\* trusted page_height message or in a direct call.
C9_BadCandidateIsNoOp ==
  [][\A w \in Widgets :
       /\ (/\ Delivered(lastMsg')
           /\ IdentifiesTrustedDomain(lastMsg'.origin)
           /\ IsPageHeight(lastMsg')
           /\ PayloadHeight(lastMsg'.data.payload) \in IgnoredCandidates)
            => HeightsUnchanged(w)
       /\ \A h \in IgnoredCandidates :
            updateHeightCall(w, h) => HeightsUnchanged(w)]_vars

\* C10: whenever a widget has a rendered structure and a numeric minHeight,
\* the used height of its container, and of its frame when there is one, is
\* at least that minHeight.
C10_HeightAtLeastMinHeight ==
  \A w \in Widgets :
    LET m == minHeight(attrs[w])
        sh == shadow[w]
    IN  (sh.kind # "empty" /\ m.t = "number")
          => /\ UsedHeight(sh.containerHeight, sh.cssMin) >= m.n
             /\ sh.kind = "frame" => UsedHeight(sh.iframeHeight, sh.cssMin) >= m.n

\* C11: while a widget is unmounted (from disconnectedCallback until the next
\* connectedCallback) no step changes its root: render state, structure,
\* overlay visibility and heights stay as they were.
C11_UnmountedRootFrozen ==
  [][\A w \in Widgets :
       (~mounted[w] /\ ~mounted'[w]) => shadow'[w] = shadow[w]]_vars

\* C13: a mounted widget whose url is absent or empty shows the error
\* structure, and no message, frame load, timer or updateHeight step changes
\* the root of a widget without url.
C13_MissingUrlStaysError ==
  /\ [](\A w \in Widgets :
          (mounted[w] /\ Len(OrElse(attrs[w]["url"], "")) = 0)
            => RenderState(shadow[w]) = "Error")
  /\ [][\A w \in Widgets :
          (/\ Len(OrElse(attrs[w]["url"], "")) = 0
           /\ \/ Delivered(lastMsg')
              \/ frameLoad(w)
              \/ settleTimeout(w)
              \/ \E h \in HeightReports : updateHeightCall(w, h))
            => shadow'[w] = shadow[w]]_vars

(***************************************************************************)
(* The resolver over all seven attributes                                  *)
(***************************************************************************)
\* a parsable url that already carries parameters, two of them under names
\* calendlyUrl sets itself
UrlC == "https://calendly.com/c/intro?month=2026-11&embed_type=Popup&primary_color=000000"

ResolveInputs ==
  {<<"url", Null>>, <<"url", Val("")>>, <<"url", Val(UrlA)>>, <<"url", Val(UrlC)>>,
   <<"hide-details", Null>>, <<"hide-details", Val("true")>>,
   <<"hide-details", Val("false")>>,
   <<"hide-gdpr", Null>>, <<"hide-gdpr", Val("true")>>,
   <<"background-color", Null>>, <<"background-color", Val("")>>,
   <<"background-color", Val("ffffff")>>,
   <<"text-color", Null>>, <<"text-color", Val("333333")>>,
   <<"primary-color", Null>>, <<"primary-color", Val("00a2ff")>>,
   <<"height", Null>>, <<"height", Val("900")>>}

ResolveMessages ==
  {Message(OriginTrusted, Data(Val("calendly.page_height"), HeightPayload(Num(1200))))}

NextResolve ==
  \/ \E w \in Widgets : connectedCallback(w)
  \/ \E w \in Widgets : disconnectedCallback(w)
  \/ \E w \in Widgets : \E c \in ResolveInputs : attributeChangedCallback(w, c[1], c[2])
  \/ \E w \in Widgets : frameLoad(w)
  \/ \E w \in Widgets : settleTimeout(w)
  \/ \E event \in ResolveMessages : windowMessage(event)

SpecResolve == Init /\ [][NextResolve]_vars

\* attribute and request parameter of the three colour customizations and of
\* the two switches
ColorParams ==
  {<<"background-color", "background_color">>, <<"text-color", "text_color">>,
   <<"primary-color", "primary_color">>}

HideParams ==
  {<<"hide-details", "hide_event_type_details">>, <<"hide-gdpr", "hide_gdpr_banner">>}

\* the values a parameter list carries under one name, in order
ParamValues(ps, name) ==
  LET Named(p) == p.name = name
      sel == SelectSeq(ps, Named)
  IN  [i \in 1..Len(sel) |-> sel[i].value]

\* the attribute has a non-empty value
Supplied(v) == v.has /\ Len(v.v) > 0

\* C12 as stated: the request of a valid configuration carries embed_domain
\* = host and embed_type = "Inline", each colour parameter if and only if its
\* attribute was supplied (then with the supplied value), and each hide
\* parameter = "1" exactly when its attribute is "true".
C12_RequestParameters ==
  \A w \in Widgets :
    LET a == attrs[w]
        req == calendlyUrl(a)
    IN  req.status = "ok" =>
          /\ ParamValues(req.params, "embed_domain") = <<Hostname>>
          /\ ParamValues(req.params, "embed_type") = <<"Inline">>
          /\ \A c \in ColorParams :
               ParamValues(req.params, c[2]) =
                 IF Supplied(a[c[1]]) THEN <<a[c[1]].v>> ELSE <<>>
          /\ \A h \in HideParams :
               ParamValues(req.params, h[2]) =
                 IF a[h[1]] = Val("true") THEN <<"1">> ELSE <<>>

\* C12 amended: embed_domain = host and embed_type = "Inline" always; a colour
\* parameter carries the supplied value when its attribute is supplied with a
\* non-empty value and a hide parameter "1" when its attribute is "true";
\* otherwise the request carries under that name exactly what the configured
\* url already carried.
C12_RequestParametersOrUrlOwn ==
  \A w \in Widgets :
    LET a == attrs[w]
        req == calendlyUrl(a)
        own == UrlSearchParams(OrElse(a["url"], ""))
    IN  req.status = "ok" =>
          /\ ParamValues(req.params, "embed_domain") = <<Hostname>>
          /\ ParamValues(req.params, "embed_type") = <<"Inline">>
          /\ \A c \in ColorParams :
               ParamValues(req.params, c[2]) =
                 IF Supplied(a[c[1]]) THEN <<a[c[1]].v>> ELSE ParamValues(own, c[2])
          /\ \A h \in HideParams :
               ParamValues(req.params, h[2]) =
                 IF a[h[1]] = Val("true") THEN <<"1">> ELSE ParamValues(own, h[2])

\* a rendered frame requests a url that brought its own primary_color and
\* embed_type, with a text colour and hide-details supplied by attribute
C12_Witness ==
  \E w \in Widgets :
    /\ mounted[w] /\ shadow[w].kind = "frame"
    /\ shadow[w].src = calendlyUrl(attrs[w])
    /\ attrs[w]["url"] = Val(UrlC)
    /\ attrs[w]["text-color"] = Val("333333")
    /\ attrs[w]["hide-details"] = Val("true")
    /\ attrs[w]["background-color"] = Val("")
    /\ ~attrs[w]["primary-color"].has
    /\ ParamValues(shadow[w].src.params, "primary_color") = <<"000000">>
    /\ ParamValues(shadow[w].src.params, "text_color") = <<"333333">>

\* the parameter names calendlyUrl sets for attributes a
SetNames(a) ==
  {"embed_domain", "embed_type"}
    \cup {c[2] : c \in {d \in ColorParams : Supplied(a[d[1]])}}
    \cup {h[2] : h \in {g \in HideParams : a[g[1]] = Val("true")}}

\* C14 as stated: the request keeps every parameter of the configured url,
\* name and value unchanged, also one whose name the resolver sets, and keeps
\* the path.
C14_UrlParametersPreserved ==
  \A w \in Widgets :
    LET req == calendlyUrl(attrs[w])
        baseUrl == OrElse(attrs[w]["url"], "")
        own == UrlSearchParams(baseUrl)
    IN  req.status = "ok" =>
          /\ req.base = UrlBase(baseUrl)
          /\ \A i \in 1..Len(own) :
               ParamValues(req.params, own[i].name) = ParamValues(own, own[i].name)

\* C14 amended: the request keeps, in order, every parameter of the configured
\* url whose name the resolver does not set for this configuration, and keeps
\* the path; under a name the resolver sets, the url's own parameters are
\* replaced by the one value the resolver sets.
C14_OtherUrlParametersPreserved ==
  \A w \in Widgets :
    LET a == attrs[w]
        req == calendlyUrl(a)
        baseUrl == OrElse(a["url"], "")
        own == UrlSearchParams(baseUrl)
        Other(p) == p.name \notin SetNames(a)
    IN  req.status = "ok" =>
          /\ req.base = UrlBase(baseUrl)
          /\ SelectSeq(req.params, Other) = SelectSeq(own, Other)
          /\ \A n \in SetNames(a) : Len(ParamValues(req.params, n)) = 1

\* a rendered frame requests the url that came with month, embed_type and
\* primary_color, while the primary-color attribute is supplied as well
C14_Witness ==
  \E w \in Widgets :
    /\ shadow[w].kind = "frame"
    /\ shadow[w].src = calendlyUrl(attrs[w])
    /\ attrs[w]["url"] = Val(UrlC)
    /\ attrs[w]["primary-color"] = Val("00a2ff")
    /\ shadow[w].src.base = "https://calendly.com/c/intro"
    /\ ParamValues(shadow[w].src.params, "month") = <<"2026-11">>
    /\ ParamValues(shadow[w].src.params, "primary_color") = <<"00a2ff">>
    /\ ParamValues(shadow[w].src.params, "embed_type") = <<"Inline">>

(***************************************************************************)
(* Every shape of message                                                  *)
(***************************************************************************)
RecognizedEvents == {"calendly.page_height"} \cup ForwardedEvents

\* event.data: missing, without event, with an empty or unknown event name, a
\* height report with every kind of payload, and the three forwarded events
DataInputs ==
  {NoData, Data(Null, FooPayload), Data(Null, HeightPayload(Num(1200))),
   Data(Val(""), FooPayload),
   Data(Val("calendly.other"), FooPayload),
   Data(Val("calendly.other"), HeightPayload(Num(1200))),
   Data(Val("page_height"), HeightPayload(Num(1200))),
   Data(Val("calendly.page_height"), NoPayload)}
    \cup {Data(Val("calendly.page_height"), HeightPayload(h)) : h \in HeightReports}
    \cup {Data(Val(e), FooPayload) : e \in ForwardedEvents}

AllMessages == {Message(o, d) : o \in Origins, d \in DataInputs}

MsgAttrInputs ==
  {<<"url", Null>>, <<"url", Val(UrlA)>>, <<"height", Null>>, <<"height", Val("900")>>}

NextMsg ==
  \/ \E w \in Widgets : connectedCallback(w)
  \/ \E w \in Widgets : disconnectedCallback(w)
  \/ \E w \in Widgets : \E c \in MsgAttrInputs : attributeChangedCallback(w, c[1], c[2])
  \/ \E w \in Widgets : frameLoad(w)
  \/ \E w \in Widgets : settleTimeout(w)
  \/ \E event \in AllMessages : windowMessage(event)

SpecMsg == Init /\ [][NextMsg]_vars

\* the message has no data, no event name, or a name that is none of the four
Unrecognized(data) ==
  \/ ~data.present
  \/ ~data.event.has
  \/ data.event.v \notin RecognizedEvents

\* C15: a message from a trusted origin that has no data, no event name or an
\* event name outside the four recognized ones changes no widget's root
\* (heights, render state) and makes no widget dispatch an event.
C15_UnrecognizedMessageIgnored ==
  [][(/\ Delivered(lastMsg')
      /\ IdentifiesTrustedDomain(lastMsg'.origin)
      /\ Unrecognized(lastMsg'.data))
       => \A w \in Widgets : shadow'[w] = shadow[w] /\ emitted'[w] = <<>>]_vars

\* a subscribed widget with a loaded frame and an applied height has just been
\* sent calendly.other with a height payload from the trusted origin
C15_Witness ==
  \E w \in Widgets :
    /\ mounted[w] /\ Subscriptions(w) = 1
    /\ RenderState(shadow[w]) = "Ready"
    /\ shadow[w].containerHeight = Px(1200)
    /\ lastMsg = Message(OriginTrusted,
                         Data(Val("calendly.other"), HeightPayload(Num(1200))))

(***************************************************************************)
(* Two widgets on one window                                               *)
(***************************************************************************)
MultiAttrInputs ==
  {<<"url", Val(UrlA)>>, <<"url", Val(UrlUnparsable)>>,
   <<"height", Null>>, <<"height", Val("900")>>}

MultiMessages ==
  {Message(OriginTrusted, Data(Val("calendly.page_height"), HeightPayload(Num(500)))),
   Message(OriginTrusted, Data(Val("calendly.page_height"), HeightPayload(Num(1200)))),
   Message(OriginTrusted, Data(Val("calendly.event_scheduled"), FooPayload))}

InitMulti == Constructed({"w1", "w2"})

NextMulti ==
  \/ \E w \in Widgets : connectedCallback(w)
  \/ \E w \in Widgets : disconnectedCallback(w)
  \/ \E w \in Widgets : \E c \in MultiAttrInputs : attributeChangedCallback(w, c[1], c[2])
  \/ \E event \in MultiMessages : windowMessage(event)

SpecMulti == InitMulti /\ [][NextMulti]_vars

\* C16: while two or more widgets are mounted, a trusted message is handled by
\* each of them: page_height h sets container and frame of every mounted
\* widget with a frame to max(h, its own minHeight), event_scheduled makes
\* every mounted widget dispatch exactly one scheduled event, and the step
\* changes no subscription and no widget's render state.
C16_EachMountedWidgetHandles ==
  [][(/\ Cardinality({v \in Widgets : mounted[v]}) >= 2
      /\ Delivered(lastMsg')
      /\ IdentifiesTrustedDomain(lastMsg'.origin))
       => /\ listeners' = listeners
          /\ \A w \in Widgets :
               LET h == PayloadHeight(lastMsg'.data.payload)
                   m == minHeight(attrs[w])
               IN  /\ RenderState(shadow'[w]) = RenderState(shadow[w])
                   /\ (/\ mounted[w] /\ shadow[w].kind = "frame"
                       /\ IsPageHeight(lastMsg')
                       /\ h.t = "number" /\ h.n > 0)
                        => /\ m.t = "number"
                           /\ shadow'[w].containerHeight =
                                Px(IF h.n >= m.n THEN h.n ELSE m.n)
                           /\ shadow'[w].iframeHeight = shadow'[w].containerHeight
                   /\ (/\ mounted[w]
                       /\ lastMsg'.data.event = Val("calendly.event_scheduled"))
                        => emitted'[w] =
                             <<CustomEvent("scheduled", lastMsg'.data.payload)>>]_vars

(***************************************************************************)
(* Loading to Ready under a fair timer                                     *)
(***************************************************************************)
\* the document runs connectedCallback when a widget that is not connected
\* is inserted
connectedOnInsert(w) == ~mounted[w] /\ connectedCallback(w)

SettleAttrInputs ==
  {<<"url", Null>>, <<"url", Val(UrlA)>>, <<"url", Val(UrlB)>>,
   <<"url", Val(UrlUnparsable)>>, <<"height", Null>>, <<"height", Val("900")>>}

SettleMessages ==
  {Message(OriginTrusted, Data(Val("calendly.page_height"), HeightPayload(Num(1200)))),
   Message(OriginTrusted, Data(Val("calendly.event_scheduled"), FooPayload))}

NextSettle ==
  \/ \E w \in Widgets : connectedOnInsert(w)
  \/ \E w \in Widgets : disconnectedCallback(w)
  \/ \E w \in Widgets : \E c \in SettleAttrInputs : attributeChangedCallback(w, c[1], c[2])
  \/ \E w \in Widgets : frameLoad(w)
  \/ \E w \in Widgets : settleTimeout(w)
  \/ \E event \in SettleMessages : windowMessage(event)

\* a timer set with setTimeout is run by the event loop
SpecSettle == Init /\ [][NextSettle]_vars /\ WF_vars(settleTimeout("w1"))

\* the frame of the current structure has signalled load and its timer is
\* pending
Settling(w) == Len(timers[w]) > 0 /\ ~Head(timers[w]).stale

\* C17: the overlay of the current structure is never hidden before its frame
\* has signalled load; once the frame has signalled load, the fair timer leads
\* to Ready with the overlay hidden unless the widget is unmounted or
\* reconfigured meanwhile; and a hidden overlay only becomes visible again by
\* a reconfiguration or a mount.
C17_LoadLeadsToReady ==
  /\ [](shadow["w1"].hidden => (shadow["w1"].kind = "frame" /\ shadow["w1"].loaded))
  /\ Settling("w1") ~>
       \/ RenderState(shadow["w1"]) = "Ready" /\ shadow["w1"].hidden
       \/ Len(timers["w1"]) > 0
            /\ (Head(timers["w1"]).detached \/ Head(timers["w1"]).reconfigured)
  /\ [][(shadow["w1"].hidden /\ ~shadow'["w1"].hidden)
          => (attrs'["w1"] # attrs["w1"] \/ (~mounted["w1"] /\ mounted'["w1"]))]_vars

\* mounted, the frame has loaded and the timer has hidden the overlay
C17_Witness ==
  /\ mounted["w1"]
  /\ RenderState(shadow["w1"]) = "Ready"
  /\ shadow["w1"].hidden
  /\ timers["w1"] = <<>>

\* C18: the overlay of the current structure becomes hidden only by the timer
\* of that structure's own load signal; a render leaves the new overlay
\* visible with its frame not loaded, and the timer of an earlier render
\* changes nothing in the current root.
C18_StaleTimerLeavesOverlay ==
  [][\A w \in Widgets :
       /\ (~shadow[w].hidden /\ shadow'[w].hidden)
            => /\ shadow[w].kind = "frame" /\ shadow[w].loaded
               /\ Len(timers[w]) > 0 /\ ~Head(timers[w]).stale
               /\ timers'[w] = Tail(timers[w])
       /\ (settleTimeout(w) /\ Head(timers[w]).stale) => shadow'[w] = shadow[w]
       /\ (attrs'[w] # attrs[w] /\ shadow'[w] # shadow[w])
            => (~shadow'[w].hidden /\ ~shadow'[w].loaded
                /\ \A i \in 1..Len(timers'[w]) : timers'[w][i].stale)]_vars

\* after a re-render the new frame has not loaded, its overlay is visible and
\* the timer of the replaced structure is still pending
C18_Witness ==
  \E w \in Widgets :
    /\ mounted[w]
    /\ RenderState(shadow[w]) = "Loading"
    /\ ~shadow[w].hidden
    /\ Len(timers[w]) > 0 /\ Head(timers[w]).stale

\* C19: in every state with a rendered frame and for every candidate h,
\* updateHeight(h) applied twice leaves the same container height, frame
\* height and render state as applied once; and a direct updateHeight call
\* dispatches no event and keeps the render state.
C19_UpdateHeightIdempotent ==
  /\ [](\A w \in Widgets : \A h \in HeightReports :
          shadow[w].kind = "frame"
            => LET once == updateHeight(attrs[w], shadow[w], h)
                   twice == updateHeight(attrs[w], once, h)
               IN  /\ twice.containerHeight = once.containerHeight
                   /\ twice.iframeHeight = once.iframeHeight
                   /\ RenderState(twice) = RenderState(once)
                   /\ RenderState(once) = RenderState(shadow[w]))
  /\ [][\A w \in Widgets :
          (/\ lastMsg' = NoMessage /\ timers' = timers /\ attrs' = attrs
           /\ mounted' = mounted /\ shadow'[w] # shadow[w]
           /\ \E h \in HeightReports : updateHeightCall(w, h))
            => (emitted'[w] = <<>>
                /\ RenderState(shadow'[w]) = RenderState(shadow[w]))]_vars

\* a frame whose height attribute is 900 holds 900px after updateHeight(500),
\* with no event dispatched
C19_Witness ==
  \E w \in Widgets :
    /\ shadow[w].kind = "frame"
    /\ attrs[w]["height"] = Val("900")
    /\ shadow[w].containerHeight = Px(900)
    /\ shadow[w].iframeHeight = Px(900)
    /\ lastMsg = NoMessage
    /\ emitted[w] = <<>>

\* C20: when an observed attribute of a rendered widget changes to a different
\* value, the re-render leaves container and frame without applied height,
\* sized by the min-height of the new configuration; a callback with equal
\* old and new value, or on a root never rendered, leaves the root (heights,
\* overlay) as it was.
C20_RerenderDiscardsHeight ==
  [][\A w \in Widgets :
       /\ (/\ \E name \in observedAttributes : attrs'[w][name] # attrs[w][name]
           /\ shadow[w].kind # "empty")
            => /\ shadow'[w].containerHeight = Unset
               /\ shadow'[w].iframeHeight = Unset
               /\ UsedHeight(shadow'[w].containerHeight, shadow'[w].cssMin)
                    = getStyles(attrs'[w])
       /\ \A c \in AttrInputs :
            (/\ attributeChangedCallback(w, c[1], c[2])
             /\ (attrs[w][c[1]] = c[2] \/ shadow[w].kind = "empty"))
              => shadow'[w] = shadow[w]]_vars

====
